---------------------------- MODULE Spec2Model ----------------------------
(***************************************************************************)
(* Model of the log-parsing scripts 0x03-log_parsing/0-stats.py and        *)
(* 0x03-log_parsing/1-stats.py: main() builds a ConcreteLogParser, attaches *)
(* a ConsoleObserver, installs a SIGINT handler and runs start(), which     *)
(* reads the stream line by line, folds every matched record into the       *)
(* totals and reports every 10 folded lines.                                *)
(*                                                                          *)
(* A line is a sequence of one-character strings.  The character "H"        *)
(* stands for the fixed head of a record,                                   *)
(*     <ip> - [<date>] "GET /projects/260 HTTP/1.1"                         *)
(* (without the blank that follows it); everything after it is kept         *)
(* character by character.  The process is modelled one source statement    *)
(* per step, and SIGINT may arrive between any two steps.                   *)
(***************************************************************************)
EXTENDS Integers, Sequences, FiniteSets, Bags, TLC

\* ------------------------------------------------------------------ bounds
\* Lines the stream may deliver before it is exhausted.
MaxLines == 30
\* Lines of the stream that are not plain records (OddLines).
MaxOdd == 1
\* Lines of the stream that are the record with status 404.
Max404 == 2

\* ------------------------------------------------------- program constants
\* "if self._line_count % 10 == 0"
BatchSize == 10
\* "(?P<file_size>\d{,12})"
MaxFileSizeDigits == 12

\* --------------------------------------------------------------- characters
Digits == {"0", "1", "2", "3", "4", "5", "6", "7", "8", "9"}

\* str.strip() without arguments removes leading and trailing whitespace.
Whitespace == {" ", "\n"}

DigitVal(c) ==
    CASE c = "0" -> 0 [] c = "1" -> 1 [] c = "2" -> 2 [] c = "3" -> 3
      [] c = "4" -> 4 [] c = "5" -> 5 [] c = "6" -> 6 [] c = "7" -> 7
      [] c = "8" -> 8 [] c = "9" -> 9

\* Code point of a character: the order Python compares strings by.
CharOrd(c) ==
    CASE c = "\n" -> 10 [] c = " " -> 32 [] c \in Digits -> 48 + DigitVal(c)
      [] c = "H" -> 72 [] c = "x" -> 120

RECURSIVE StrLess(_, _)
\* a < b for two Python strings.
StrLess(a, b) ==
    IF b = <<>> THEN FALSE
    ELSE IF a = <<>> THEN TRUE
    ELSE IF a[1] # b[1] THEN CharOrd(a[1]) < CharOrd(b[1])
    ELSE StrLess(Tail(a), Tail(b))

RECURSIVE LStrip(_)
LStrip(s) ==
    IF s # <<>> /\ s[1] \in Whitespace THEN LStrip(Tail(s)) ELSE s

RECURSIVE RStrip(_)
RStrip(s) ==
    IF s # <<>> /\ s[Len(s)] \in Whitespace
        THEN RStrip(SubSeq(s, 1, Len(s) - 1))
        ELSE s

\* log.strip()
Strip(s) == RStrip(LStrip(s))

AllDigits(s) == \A i \in 1..Len(s) : s[i] \in Digits

RECURSIVE IntOf(_)
\* int(s) for a non-empty string of decimal digits.
IntOf(s) ==
    IF s = <<>> THEN 0
    ELSE 10 * IntOf(SubSeq(s, 1, Len(s) - 1)) + DigitVal(s[Len(s)])

\* int(s) raises ValueError on the empty string.
IntRaises(s) == s = <<>> \/ ~AllDigits(s)

\* ------------------------------------------------------------- the patterns
\* (200|301|400|401|403|404|405|500)
StatusCodes ==
    { <<"2", "0", "0">>, <<"3", "0", "1">>, <<"4", "0", "0">>,
      <<"4", "0", "1">>, <<"4", "0", "3">>, <<"4", "0", "4">>,
      <<"4", "0", "5">>, <<"5", "0", "0">> }

NoMatch == [ok |-> FALSE, status_code |-> <<>>, file_size |-> <<>>]

\* The length of the longest run of digits of s that starts at position i.
RECURSIVE DigitRun(_, _)
DigitRun(s, i) ==
    IF i <= Len(s) /\ s[i] \in Digits THEN 1 + DigitRun(s, i + 1) ELSE 0

\* The pattern with (?P<status_code>\d{3}) for the status code.
FullMatch1AnyStatus(log) ==
    IF /\ Len(log) >= 6
       /\ log[1] = "H"
       /\ log[2] = " "
       /\ AllDigits(SubSeq(log, 3, 5))
       /\ log[6] = " "
       /\ AllDigits(SubSeq(log, 7, Len(log)))
       /\ Len(log) - 6 <= MaxFileSizeDigits
    THEN [ok |-> TRUE,
          status_code |-> SubSeq(log, 3, 5),
          file_size |-> SubSeq(log, 7, Len(log))]
    ELSE NoMatch

\* 1-stats.py: re.fullmatch(cls._pattern, log)
FullMatch1(log) ==
    IF /\ Len(log) >= 6
       /\ log[1] = "H"
       /\ log[2] = " "
       /\ SubSeq(log, 3, 5) \in StatusCodes
       /\ log[6] = " "
       /\ AllDigits(SubSeq(log, 7, Len(log)))
       /\ Len(log) - 6 <= MaxFileSizeDigits
    THEN [ok |-> TRUE,
          status_code |-> SubSeq(log, 3, 5),
          file_size |-> SubSeq(log, 7, Len(log))]
    ELSE NoMatch

\* 0-stats.py: re.match(cls._pattern, log), with (\d{3}) and (\d+)
Match0(log) ==
    IF /\ Len(log) >= 7
       /\ log[1] = "H"
       /\ log[2] = " "
       /\ AllDigits(SubSeq(log, 3, 5))
       /\ log[6] = " "
       /\ log[7] \in Digits
    THEN [ok |-> TRUE,
          status_code |-> SubSeq(log, 3, 5),
          file_size |-> SubSeq(log, 7, 6 + DigitRun(log, 7))]
    ELSE NoMatch

\* parse_log of the script
parse_log(s, log) == IF s = "1-stats" THEN FullMatch1(log) ELSE Match0(log)

\* A parser for which the blank and the byte size after the status code are
\* optional, a missing byte size counting as 0.
ClassifyEmptyAsZero(s, log) ==
    LET m == parse_log(s, log) IN
    IF m.ok
        THEN [kind |-> "record", status_code |-> m.status_code,
              file_size |-> IntOf(m.file_size)]
    ELSE IF parse_log(s, log \o <<" ">>).ok
        THEN [kind |-> "record",
              status_code |-> parse_log(s, log \o <<" ">>).status_code,
              file_size |-> 0]
    ELSE [kind |-> "nomatch", status_code |-> <<>>, file_size |-> 0]

\* What start() makes of one stripped, non-empty line: parse_log, the test
\* "if not log_info", and int(log_info["file_size"]).
Classify(s, log) ==
    LET m == parse_log(s, log) IN
    IF ~m.ok
        THEN [kind |-> "nomatch", status_code |-> <<>>, file_size |-> 0]
    ELSE IF IntRaises(m.file_size)
        THEN [kind |-> "valueerror", status_code |-> m.status_code,
              file_size |-> 0]
    ELSE [kind |-> "record", status_code |-> m.status_code,
          file_size |-> IntOf(m.file_size)]

\* ------------------------------------------------------------------ stream
\* The lines the stream may deliver (each with its line terminator).
Rec200 == <<"H", " ", "2", "0", "0", " ", "7", "\n">>
Rec404 == <<"H", " ", "4", "0", "4", " ", "1", "2", "\n">>
EmptySize == <<"H", " ", "2", "0", "0", " ", "\n">>
Code999 == <<"H", " ", "9", "9", "9", " ", "7", "\n">>
Trailing == <<"H", " ", "2", "0", "0", " ", "7", "x", "\n">>
Junk == <<"x", "\n">>
Blank == <<"\n">>

PlainLines == {Rec200, Rec404}
OddLines == {EmptySize, Code999, Trailing, Junk, Blank}
Lines == PlainLines \cup OddLines

\* ------------------------------------------------------------------ output
\* One line of standard output.
SizeLine(n) == [kind |-> "size", label |-> "File Size", code |-> <<>>, n |-> n]
CodeLine(item) == [kind |-> "code", label |-> "", code |-> item[1], n |-> item[2]]
DiagLine(msg) == [kind |-> "diag", label |-> msg, code |-> <<>>, n |-> 0]

\* ------------------------------------------------- defaultdict(int) as a dict
\* A dict is the sequence of its (key, value) pairs in insertion order.
Keys(d) == {d[i][1] : i \in 1..Len(d)}

DictGet(d, k) ==
    IF k \in Keys(d)
        THEN d[CHOOSE i \in 1..Len(d) : d[i][1] = k][2]
        ELSE 0

DictSet(d, k, v) ==
    IF k \in Keys(d)
        THEN [i \in 1..Len(d) |-> IF d[i][1] = k THEN <<k, v>> ELSE d[i]]
        ELSE Append(d, <<k, v>>)

RECURSIVE sorted(_)
\* sorted(d.items()): the keys are distinct, so the pairs are ordered by key.
sorted(d) ==
    IF d = <<>> THEN <<>>
    ELSE LET i == CHOOSE i \in 1..Len(d) :
                    \A j \in 1..Len(d) : j # i => StrLess(d[i][1], d[j][1])
         IN <<d[i]>> \o sorted(SubSeq(d, 1, i - 1) \o SubSeq(d, i + 1, Len(d)))

RECURSIVE CodeLines(_)
CodeLines(items) ==
    IF items = <<>> THEN <<>>
    ELSE <<CodeLine(Head(items))>> \o CodeLines(Tail(items))

\* ConsoleObserver.update(data), run to completion.
update(size, counts) == <<SizeLine(size)>> \o CodeLines(sorted(counts))


\* ----------------------------------------------------- bags of records
\* The sum of the byte sizes of the records of bag b.
RECURSIVE SizeSum(_, _)
SizeSum(b, S) ==
    IF S = {} THEN 0
    ELSE LET r == CHOOSE r \in S : TRUE
         IN CopiesIn(r, b) * r.file_size + SizeSum(b, S \ {r})

TotalBytes(b) == SizeSum(b, BagToSet(b))

\* The number of records of bag b with status code c.
RECURSIVE CodeSum(_, _, _)
CodeSum(b, S, c) ==
    IF S = {} THEN 0
    ELSE LET r == CHOOSE r \in S : TRUE
         IN (IF r.status_code = c THEN CopiesIn(r, b) ELSE 0)
                + CodeSum(b, S \ {r}, c)

Occurrences(b, c) == CodeSum(b, BagToSet(b), c)

\* ------------------------------------------------------------------- state
VARIABLES
    script,             \* which script runs: "0-stats" or "1-stats"
    pc,                 \* the statement the main thread executes next
    ret,                \* where notify() returns to
    raw,                \* the line as read from the stream
    log,                \* the loop variable of start(), after strip()
    log_info,           \* status_code and file_size of the line being folded
    files_size,         \* self._files_size
    status_code_count,  \* self._status_code_count
    line_count,         \* self._line_count
    observers,          \* len(self._observers)
    handler,            \* the handler signal.signal() installed for SIGINT
    callback,           \* the _callback of each SignalHandler
    summary,            \* notify(): summary["files_size"]
    items,              \* update(): what is left of sorted(...items())
    stdout,             \* every line written to standard output
    exit_code,          \* <<>> while the process runs, <<status>> after
    nread,              \* lines taken from the stream
    nodd,               \* lines taken from the stream that are in OddLines
    folded,             \* the bag of the records handed to log()
    at_sig,             \* where the process was when SIGINT arrived
    held,               \* a caller of get_summary(): the summary it keeps
    taken,              \* the totals at the moment held was returned
    ncalls,             \* calls of log() and get_summary() made so far
    boxes,              \* canUnlockAll: the argument
    unlocked_boxes,     \* canUnlockAll: unlocked_boxes
    stack,              \* canUnlockAll: stack
    box_pc,             \* canUnlockAll: the statement executed next
    can_unlock,         \* canUnlockAll: <<>>, or <<the value returned>>
    pops,               \* canUnlockAll: iterations of "while stack" so far
    chars,              \* the text editor: number of 'H' in the file
    clipboard,          \* the text editor: number of 'H' on the clipboard
    operations,         \* the text editor: operations performed so far
    queens,             \* 0-nqueens.py: N
    solutions,          \* 0-nqueens.py: what solve_nqueens(N) returned
    printed,            \* 0-nqueens.py: the solutions printed so far
    queens_pc           \* 0-nqueens.py: the statement executed next

\* the state of the log parser scripts
statsvars == <<script, pc, ret, raw, log, log_info, files_size,
               status_code_count, line_count, observers, handler, callback,
               summary, items, stdout, exit_code, nread, nodd, folded, at_sig>>

\* the state of a caller of the parser's methods
apivars == <<held, taken, ncalls>>

\* the state of canUnlockAll
boxvars == <<boxes, unlocked_boxes, stack, box_pc, can_unlock, pops>>

\* the state of the text editor of the minimum operations problem
editvars == <<chars, clipboard, operations>>

\* the state of 0-nqueens.py
queenvars == <<queens, solutions, printed, queens_pc>>

\* what the log parser scripts never touch
others == <<apivars, boxvars, editvars, queenvars>>

vars == <<statsvars, others>>

NoSignal == [pc |-> "none", nout |-> 0, calls |-> 0]

\* No caller holds a summary.
ApiIdle ==
    /\ held = <<>>
    /\ taken = <<>>
    /\ ncalls = 0

\* canUnlockAll is not running.
BoxesIdle ==
    /\ boxes = <<>>
    /\ unlocked_boxes = <<>>
    /\ stack = <<>>
    /\ box_pc = "off"
    /\ can_unlock = <<>>
    /\ pops = 0

\* No text editor is open.
EditIdle ==
    /\ chars = 0
    /\ clipboard = 0
    /\ operations = 0

\* 0-nqueens.py is not running.
QueensIdle ==
    /\ queens = 0
    /\ solutions = <<>>
    /\ printed = <<>>
    /\ queens_pc = "off"

Init ==
    /\ script \in {"0-stats", "1-stats"}
    /\ pc = "main"
    /\ ret = "none"
    /\ raw = <<>>
    /\ log = <<>>
    /\ log_info = [status_code |-> <<>>, file_size |-> 0]
    /\ files_size = 0
    /\ status_code_count = <<>>
    /\ line_count = 0
    /\ observers = 0
    /\ handler = "default"
    /\ callback = [h \in {"parser", "main"} |-> "None"]
    /\ summary = 0
    /\ items = <<>>
    /\ stdout = <<>>
    /\ exit_code = <<>>
    /\ nread = 0
    /\ nodd = 0
    /\ folded = EmptyBag
    /\ at_sig = NoSignal
    /\ ApiIdle
    /\ BoxesIdle
    /\ EditIdle
    /\ QueensIdle

\* ------------------------------------------------------------ main(), setup
\* ConcreteLogParser.__init__: the three attributes
InitParser ==
    /\ pc = "main"
    /\ files_size' = 0
    /\ status_code_count' = <<>>
    /\ line_count' = 0
    /\ observers' = 0
    /\ pc' = "new_handler"
    /\ UNCHANGED <<others, script, ret, raw, log, log_info, handler, callback, summary,
                   items, stdout, exit_code, nread, nodd, folded, at_sig>>

\* SignalHandler.__init__(sig): callback None, then signal.signal(...)
NewSignalHandler(h, here, next) ==
    /\ pc = here
    /\ callback' = [callback EXCEPT ![h] = "None"]
    /\ handler' = h
    /\ pc' = next
    /\ UNCHANGED <<others, script, ret, raw, log, log_info, files_size,
                   status_code_count, line_count, observers, summary, items,
                   stdout, exit_code, nread, nodd, folded, at_sig>>

\* the callback setter
SetCallback(h, here, next) ==
    /\ pc = here
    /\ callback' = [callback EXCEPT ![h] = "notify"]
    /\ pc' = next
    /\ UNCHANGED <<others, script, ret, raw, log, log_info, files_size,
                   status_code_count, line_count, observers, handler, summary,
                   items, stdout, exit_code, nread, nodd, folded, at_sig>>

\* self.signal_handler = SignalHandler(signal.SIGINT)
ParserNewHandler == NewSignalHandler("parser", "new_handler", "set_callback")

\* self.signal_handler.callback = self.notify
ParserSetCallback == SetCallback("parser", "set_callback", "attach")

\* parser.attach(console_observer)
attach ==
    /\ pc = "attach"
    /\ observers' = observers + 1
    /\ pc' = "main_new_handler"
    /\ UNCHANGED <<others, script, ret, raw, log, log_info, files_size,
                   status_code_count, line_count, handler, callback, summary,
                   items, stdout, exit_code, nread, nodd, folded, at_sig>>

\* signal_handler = SignalHandler(signal.SIGINT)
MainNewHandler == NewSignalHandler("main", "main_new_handler", "main_set_callback")

\* signal_handler.callback = parser.notify, then parser.start()
MainSetCallback == SetCallback("main", "main_set_callback", "read")

\* ----------------------------------------------------------------- start()
\* for log in self.stream: log = log.strip(); if not log: continue
\* The stream delivers any line of Lines, within the bounds.
ReadLine ==
    /\ pc = "read"
    /\ nread < MaxLines
    /\ \E line \in Lines :
        /\ line \in OddLines => nodd < MaxOdd
        /\ line = Rec404 =>
                Occurrences(folded, <<"4", "0", "4">>) < Max404
        /\ raw' = line
        /\ log' = Strip(line)
        /\ nodd' = IF line \in OddLines THEN nodd + 1 ELSE nodd
        /\ pc' = IF Strip(line) = <<>> THEN "read" ELSE "parse"
    /\ nread' = nread + 1
    /\ UNCHANGED <<others, script, ret, log_info, files_size, status_code_count,
                   line_count, observers, handler, callback, summary, items,
                   stdout, exit_code, folded, at_sig>>

NoMatchMsg == "Log doesn't match the expected pattern. Check your logs, log skipped!"
ValueErrorMsg == "Error parsing the log"

\* A skipped line that is counted like a folded one.
SkipCounted(msg) ==
    /\ stdout' = Append(stdout, DiagLine(msg))
    /\ line_count' = line_count + 1
    /\ pc' = "check"
    /\ UNCHANGED <<log_info, folded>>

\* A skipped line that ends the loop: "break" in place of "continue".
SkipBreak(msg) ==
    /\ stdout' = Append(stdout, DiagLine(msg))
    /\ pc' = IF script = "1-stats" THEN "notify" ELSE "return"
    /\ UNCHANGED <<log_info, folded, line_count>>

\* print(...) and on to the next line: "continue" after parse_log, or the
\* end of the "except ValueError" clause.
Skip(msg) ==
    /\ stdout' = Append(stdout, DiagLine(msg))
    /\ pc' = "read"
    /\ UNCHANGED <<log_info, folded, line_count>>

\* log_info = self.parse_log(log); if not log_info: continue;
\* file_size = int(log_info["file_size"]); status_code = ...;
\* except ValueError: print(...)
ParseLog ==
    /\ pc = "parse"
    /\ LET r == Classify(script, log) IN
        CASE r.kind = "nomatch" -> Skip(NoMatchMsg)
          [] r.kind = "valueerror" -> Skip(ValueErrorMsg)
          [] r.kind = "record" ->
                /\ log_info' = [status_code |-> r.status_code,
                                file_size |-> r.file_size]
                /\ folded' = folded (+) SetToBag({log_info'})
                /\ pc' = "log_size"
                /\ UNCHANGED <<stdout, line_count>>
    /\ UNCHANGED <<others, script, ret, raw, log, files_size, status_code_count,
                   observers, handler, callback, summary, items, exit_code,
                   nread, nodd, at_sig>>

\* "self._files_size = file_size" in place of "+=".
LogSizeAssign ==
    /\ pc = "log_size"
    /\ files_size' = log_info.file_size
    /\ pc' = "log_count"
    /\ UNCHANGED <<others, script, ret, raw, log, log_info, status_code_count,
                   line_count, observers, handler, callback, summary, items,
                   stdout, exit_code, nread, nodd, folded, at_sig>>

\* log(): self._files_size += file_size
LogSize ==
    /\ pc = "log_size"
    /\ files_size' = files_size + log_info.file_size
    /\ pc' = "log_count"
    /\ UNCHANGED <<others, script, ret, raw, log, log_info, status_code_count,
                   line_count, observers, handler, callback, summary, items,
                   stdout, exit_code, nread, nodd, folded, at_sig>>

\* "self._status_code_count[status_code] = 1" in place of "+= 1".
LogCountSet ==
    /\ pc = "log_count"
    /\ status_code_count' =
            DictSet(status_code_count, log_info.status_code, 1)
    /\ pc' = "count"
    /\ UNCHANGED <<others, script, ret, raw, log, log_info, files_size, line_count,
                   observers, handler, callback, summary, items, stdout,
                   exit_code, nread, nodd, folded, at_sig>>

\* log(): self._status_code_count[status_code] += 1
LogCount ==
    /\ pc = "log_count"
    /\ status_code_count' =
            DictSet(status_code_count, log_info.status_code,
                    DictGet(status_code_count, log_info.status_code) + 1)
    /\ pc' = "count"
    /\ UNCHANGED <<others, script, ret, raw, log, log_info, files_size, line_count,
                   observers, handler, callback, summary, items, stdout,
                   exit_code, nread, nodd, folded, at_sig>>

\* self._line_count += 1
CountLine ==
    /\ pc = "count"
    /\ line_count' = line_count + 1
    /\ pc' = "check"
    /\ UNCHANGED <<others, script, ret, raw, log, log_info, files_size,
                   status_code_count, observers, handler, callback, summary,
                   items, stdout, exit_code, nread, nodd, folded, at_sig>>

\* if self._line_count % 10 == 0: self.notify()
CheckBatch ==
    /\ pc = "check"
    /\ IF line_count % BatchSize = 0
        THEN pc' = "notify" /\ ret' = "read"
        ELSE pc' = "read" /\ ret' = ret
    /\ UNCHANGED <<others, script, raw, log, log_info, files_size, status_code_count,
                   line_count, observers, handler, callback, summary, items,
                   stdout, exit_code, nread, nodd, folded, at_sig>>

\* The stream is exhausted and start() returns without a report.
EndOfStreamNoFinal ==
    /\ pc = "read"
    /\ pc' = "return"
    /\ UNCHANGED <<others, script, ret, raw, log, log_info, files_size,
                   status_code_count, line_count, observers, handler, callback,
                   summary, items, stdout, exit_code, nread, nodd, folded, at_sig>>

\* The stream is exhausted: 1-stats.py calls self.notify() after the loop,
\* 0-stats.py returns from start().
EndOfStream ==
    /\ pc = "read"
    /\ IF script = "1-stats"
        THEN pc' = "notify" /\ ret' = "return"
        ELSE pc' = "return" /\ ret' = ret
    /\ UNCHANGED <<others, script, raw, log, log_info, files_size, status_code_count,
                   line_count, observers, handler, callback, summary, items,
                   stdout, exit_code, nread, nodd, folded, at_sig>>

\* main() returns and the interpreter exits with status 0.
Return ==
    /\ pc = "return"
    /\ pc' = "done"
    /\ exit_code' = <<0>>
    /\ UNCHANGED <<others, script, ret, raw, log, log_info, files_size,
                   status_code_count, line_count, observers, handler, callback,
                   summary, items, stdout, nread, nodd, folded, at_sig>>

\* notify() that starts a new period: the totals are cleared once reported.
NotifyAndReset ==
    /\ pc = "notify"
    /\ summary' = files_size
    /\ files_size' = 0
    /\ line_count' = 0
    /\ pc' = IF observers > 0 THEN "print_size" ELSE ret
    /\ UNCHANGED <<others, script, ret, raw, log, log_info, status_code_count,
                   observers, handler, callback, items, stdout, exit_code,
                   nread, nodd, folded, at_sig>>

\* --------------------------------------------------- notify() and update()
\* summary = self.get_summary(); for observer in self._observers: ...
\* The summary holds the value of _files_size and the dict itself.
Notify ==
    /\ pc = "notify"
    /\ summary' = files_size
    /\ pc' = IF observers > 0 THEN "print_size" ELSE ret
    /\ UNCHANGED <<others, script, ret, raw, log, log_info, files_size,
                   status_code_count, line_count, observers, handler, callback,
                   items, stdout, exit_code, nread, nodd, folded, at_sig>>

\* print(f"File Size: {data['files_size']}")
UpdatePrintSize ==
    /\ pc = "print_size"
    /\ stdout' = Append(stdout, SizeLine(summary))
    /\ pc' = "sorted"
    /\ UNCHANGED <<others, script, ret, raw, log, log_info, files_size,
                   status_code_count, line_count, observers, handler, callback,
                   summary, items, exit_code, nread, nodd, folded, at_sig>>

\* for code, count in sorted(data['status_code_count'].items()):
UpdateSorted ==
    /\ pc = "sorted"
    /\ items' = sorted(status_code_count)
    /\ pc' = "print_code"
    /\ UNCHANGED <<others, script, ret, raw, log, log_info, files_size,
                   status_code_count, line_count, observers, handler, callback,
                   summary, stdout, exit_code, nread, nodd, folded, at_sig>>

\* print(f"{code}: {count}"), or the loop is over and notify() returns
UpdatePrintCode ==
    /\ pc = "print_code"
    /\ IF items = <<>>
        THEN pc' = ret /\ UNCHANGED <<items, stdout>>
        ELSE /\ stdout' = Append(stdout, CodeLine(Head(items)))
             /\ items' = Tail(items)
             /\ pc' = pc
    /\ UNCHANGED <<others, script, ret, raw, log, log_info, files_size,
                   status_code_count, line_count, observers, handler, callback,
                   summary, exit_code, nread, nodd, folded, at_sig>>

\* ------------------------------------------------------------------ SIGINT
\* The statements of start() inside "try:".
InTry(here, r) ==
    \/ here \in {"parse", "log_size", "log_count", "count", "check"}
    \/ here \in {"notify", "print_size", "sorted", "print_code"} /\ r = "read"

\* A bare "except:" around the body of the loop.
CatchesAll(here, r, exc) == InTry(here, r)

\* "except ValueError as e": does the handler of start() catch exc raised
\* at statement here?
Catches(here, r, exc) == InTry(here, r) /\ exc = "ValueError"

NoCallbackMsg == "No callback set for handling the signal."

\* _handle_signal without the "else" branch: silent when no callback is set.
HandlerOutputSilent ==
    IF callback[handler] = "notify" /\ observers > 0
        THEN update(files_size, status_code_count)
        ELSE <<>>

\* What _handle_signal writes before sys.exit(0): the callback is
\* parser.notify, which runs update() of every attached observer.
HandlerOutput ==
    IF callback[handler] = "notify"
        THEN IF observers > 0
                THEN update(files_size, status_code_count)
                ELSE <<>>
        ELSE <<DiagLine(NoCallbackMsg)>>

\* SIGINT arrives.  Under the default handler Python raises
\* KeyboardInterrupt in the main thread, which nothing catches: the
\* interpreter dies of the signal (status 130).  Under a SignalHandler,
\* _handle_signal runs on top of the interrupted statement: the callback if
\* one is set, else the diagnostic, then sys.exit(0) raises SystemExit.
Sigint ==
    /\ exit_code = <<>>
    /\ at_sig.pc = "none"
    /\ at_sig' = [pc |-> pc, nout |-> Len(stdout),
                  calls |-> IF handler # "default"
                               /\ callback[handler] = "notify"
                            THEN 1 ELSE 0]
    /\ IF handler = "default"
        THEN /\ pc' = "exited"
             /\ exit_code' = <<130>>
             /\ stdout' = stdout
        ELSE IF Catches(pc, ret, "SystemExit")
            THEN /\ pc' = "read"
                 /\ exit_code' = exit_code
                 /\ stdout' = stdout \o HandlerOutput
                                \o <<DiagLine(ValueErrorMsg)>>
            ELSE /\ pc' = "exited"
                 /\ exit_code' = <<0>>
                 /\ stdout' = stdout \o HandlerOutput
    /\ UNCHANGED <<others, script, ret, raw, log, log_info, files_size,
                   status_code_count, line_count, observers, handler, callback,
                   summary, items, nread, nodd, folded>>

\* ----------------------------------------------------------- specification
Next ==
    \/ InitParser
    \/ ParserNewHandler
    \/ ParserSetCallback
    \/ attach
    \/ MainNewHandler
    \/ MainSetCallback
    \/ ReadLine
    \/ ParseLog
    \/ LogSize
    \/ LogCount
    \/ CountLine
    \/ CheckBatch
    \/ EndOfStream
    \/ Return
    \/ Notify
    \/ UpdatePrintSize
    \/ UpdateSorted
    \/ UpdatePrintCode
    \/ Sigint

Spec == Init /\ [][Next]_vars

\* ------------------------------------------- the parser's methods, called
\* A program other than main() runs: the scripts' own state is at rest, with
\* a ConcreteLogParser of 1-stats.py constructed.
StatsOff ==
    /\ script = "1-stats"
    /\ pc = "off"
    /\ ret = "none"
    /\ raw = <<>>
    /\ log = <<>>
    /\ log_info = [status_code |-> <<>>, file_size |-> 0]
    /\ files_size = 0
    /\ status_code_count = <<>>
    /\ line_count = 0
    /\ observers = 0
    /\ handler = "default"
    /\ callback = [h \in {"parser", "main"} |-> "None"]
    /\ summary = 0
    /\ items = <<>>
    /\ stdout = <<>>
    /\ exit_code = <<>>
    /\ nread = 0
    /\ nodd = 0
    /\ folded = EmptyBag
    /\ at_sig = NoSignal

MaxCalls == 6

\* The dict object of the parser: every reference to it reads its present
\* contents.
SelfStatusCodeCount == "self._status_code_count"

\* the object a reference points to
Deref(ref) == IF ref = SelfStatusCodeCount THEN status_code_count ELSE <<>>

\* return {"files_size": self._files_size,
\*         "status_code_count": self._status_code_count}
\* The int is a value; the dict is the parser's own object, not a copy.
get_summary ==
    [files_size |-> files_size, status_code_count |-> SelfStatusCodeCount]

\* summary = parser.get_summary(), kept by the caller
ApiGetSummary ==
    /\ ncalls < MaxCalls
    /\ held' = <<get_summary>>
    /\ taken' = <<[files_size |-> files_size,
                   status_code_count |-> status_code_count]>>
    /\ ncalls' = ncalls + 1
    /\ UNCHANGED <<statsvars, boxvars, editvars, queenvars>>

\* parser.log(file_size, status_code) with the record of a well-formed line
ApiLog ==
    /\ ncalls < MaxCalls
    /\ \E line \in PlainLines :
        LET r == Classify(script, Strip(line)) IN
        /\ files_size' = files_size + r.file_size
        /\ status_code_count' =
                DictSet(status_code_count, r.status_code,
                        DictGet(status_code_count, r.status_code) + 1)
    /\ ncalls' = ncalls + 1
    /\ UNCHANGED <<script, pc, ret, raw, log, log_info, line_count, observers,
                   handler, callback, summary, items, stdout, exit_code, nread,
                   nodd, folded, at_sig>>
    /\ UNCHANGED <<held, taken, boxvars, editvars, queenvars>>

InitApi ==
    /\ StatsOff
    /\ ApiIdle
    /\ BoxesIdle
    /\ EditIdle
    /\ QueensIdle

NextApi ==
    \/ ApiGetSummary
    \/ ApiLog

SpecApi == InitApi /\ [][NextApi]_vars

\* ------------------------------------------------------- minOperations(n)
RECURSIVE Factorize(_, _, _)
\* The two while loops without the Copy All of each factor: only the
\* pastes are counted.
FactorizeNoCopy(n, factor, ops) ==
    IF n <= 1 THEN ops
    ELSE IF n % factor = 0
        THEN Factorize(n \div factor, factor, ops + factor - 1)
        ELSE Factorize(n, factor + 1, ops)

\* while n > 1: while n % factor == 0: operations += factor; n //= factor
\*              factor += 1
\* from the state (n, factor, operations) to the value returned.
Factorize(n, factor, ops) ==
    IF n <= 1 THEN ops
    ELSE IF n % factor = 0
        THEN Factorize(n \div factor, factor, ops + factor)
        ELSE Factorize(n, factor + 1, ops)

\* if n < 2: return 0; operations = 0; factor = 2; the loops
minOperations(n) == IF n < 2 THEN 0 ELSE Factorize(n, 2, 0)

MaxH == 30

\* Copy All: the clipboard takes the whole file.
CopyAll ==
    /\ operations < MaxH
    /\ clipboard' = chars
    /\ operations' = operations + 1
    /\ UNCHANGED <<chars, statsvars, apivars, boxvars, queenvars>>

\* Paste: the clipboard is appended to the file.
Paste ==
    /\ operations < MaxH
    /\ clipboard > 0
    /\ chars + clipboard <= MaxH
    /\ chars' = chars + clipboard
    /\ operations' = operations + 1
    /\ UNCHANGED <<clipboard, statsvars, apivars, boxvars, queenvars>>

\* The file holds a single 'H' and nothing was copied yet.
InitEdit ==
    /\ chars = 1
    /\ clipboard = 0
    /\ operations = 0
    /\ StatsOff
    /\ ApiIdle
    /\ BoxesIdle
    /\ QueensIdle

NextEdit ==
    \/ CopyAll
    \/ Paste

SpecEdit == InitEdit /\ [][NextEdit]_vars

RECURSIVE ReachIn(_)
\* The pairs <<file, clipboard>> the editor can be in after exactly k
\* operations, with files of at most MaxH characters.
ReachIn(k) ==
    IF k = 0 THEN {<<1, 0>>}
    ELSE LET prev == ReachIn(k - 1) IN
         {<<c[1], c[1]>> : c \in prev}
         \cup {<<c[1] + c[2], c[2]>> :
                 c \in {d \in prev : d[2] > 0 /\ d[1] + d[2] <= MaxH}}

\* ----------------------------------------------------- canUnlockAll(boxes)
MaxBoxes == 3

RECURSIVE AscendingList(_)
\* the numbers of S as a list in ascending order
AscendingList(S) ==
    IF S = {} THEN <<>>
    ELSE LET m == CHOOSE m \in S : \A k \in S : m <= k
         IN <<m>> \o AscendingList(S \ {m})

\* The keys box i of n boxes may hold: 0..n other than i, where n is the
\* index of no box.  OtherKey(i, j) numbers them by j in 0..n-1.
OtherKey(i, j) == IF j < i THEN j ELSE j + 1

\* The list of n boxes, numbered from 0, where box i holds the keys that c[i]
\* numbers, in ascending order.
BoxList(n, c) ==
    [i \in 0..(n - 1) |-> AscendingList({OtherKey(i, j) : j \in c[i]})]

\* len(boxes)
boxes_number == Cardinality(DOMAIN boxes)

\* The test with the bound one too low: "key < boxes_number - 1".
CanOpenBelowLast(key, unlocked) ==
    key < boxes_number - 1 /\ ~unlocked[key]

\* if key < boxes_number and not unlocked_boxes[key]
CanOpen(key, unlocked) ==
    key < boxes_number /\ ~unlocked[key]

RECURSIVE UseKeys(_, _, _)
\* for key in boxes[current_key]: if ...: unlocked_boxes[key] = True;
\*                                        stack.append(key)
\* over the keys left, from the lists unlocked and stk.
UseKeys(keys, unlocked, stk) ==
    IF keys = <<>> THEN [unlocked_boxes |-> unlocked, stack |-> stk]
    ELSE IF CanOpen(Head(keys), unlocked)
        THEN UseKeys(Tail(keys), [unlocked EXCEPT ![Head(keys)] = TRUE],
                     Append(stk, Head(keys)))
        ELSE UseKeys(Tail(keys), unlocked, stk)

\* boxes_number = len(boxes); unlocked_boxes = [False] * boxes_number;
\* stack = [0]; unlocked_boxes[0] = True
BoxesSetup ==
    /\ box_pc = "call"
    /\ unlocked_boxes' = [i \in DOMAIN boxes |-> i = 0]
    /\ stack' = <<0>>
    /\ box_pc' = "while"
    /\ UNCHANGED <<boxes, can_unlock, pops>>
    /\ UNCHANGED <<statsvars, apivars, editvars, queenvars>>

\* while stack: current_key = stack.pop(); the for loop over its keys
BoxesPop ==
    /\ box_pc = "while"
    /\ stack # <<>>
    /\ LET current_key == stack[Len(stack)]
           r == UseKeys(boxes[current_key], unlocked_boxes,
                        SubSeq(stack, 1, Len(stack) - 1))
       IN /\ unlocked_boxes' = r.unlocked_boxes
          /\ stack' = r.stack
    /\ pops' = pops + 1
    /\ UNCHANGED <<boxes, box_pc, can_unlock>>
    /\ UNCHANGED <<statsvars, apivars, editvars, queenvars>>

\* the stack is empty: return all(unlocked_boxes)
BoxesReturn ==
    /\ box_pc = "while"
    /\ stack = <<>>
    /\ can_unlock' = <<\A i \in DOMAIN unlocked_boxes : unlocked_boxes[i]>>
    /\ box_pc' = "done"
    /\ UNCHANGED <<boxes, unlocked_boxes, stack, pops>>
    /\ UNCHANGED <<statsvars, apivars, editvars, queenvars>>

\* The argument: between 1 and MaxBoxes boxes, each with any set of the
\* keys it may hold.
InitBoxes ==
    /\ \E n \in 1..MaxBoxes :
        \E c \in [0..(n - 1) -> SUBSET (0..(n - 1))] :
            boxes = BoxList(n, c)
    /\ unlocked_boxes = <<>>
    /\ stack = <<>>
    /\ box_pc = "call"
    /\ can_unlock = <<>>
    /\ pops = 0
    /\ StatsOff
    /\ ApiIdle
    /\ EditIdle
    /\ QueensIdle

NextBoxes ==
    \/ BoxesSetup
    \/ BoxesPop
    \/ BoxesReturn

\* The call runs to its end: a statement that can execute does.
SpecBoxes == InitBoxes /\ [][NextBoxes]_vars /\ WF_vars(NextBoxes)

RECURSIVE OpenedFrom(_)
\* The boxes that can be opened once those of S are open: S, the boxes whose
\* keys lie in a box of S, and so on.
OpenedFrom(S) ==
    LET found == {k \in 0..(boxes_number - 1) :
                    \E i \in S : \E j \in 1..Len(boxes[i]) : boxes[i][j] = k}
    IN IF found \subseteq S THEN S ELSE OpenedFrom(S \cup found)

\* ---------------------------------------------------------- 0-nqueens.py
MaxQueens == 8

\* col not in columns and (row + col) not in positive_diagonals
\* and (row - col) not in negative_diagonals
can_place_queen(row, col, columns, positive_diagonals, negative_diagonals) ==
    /\ col \notin columns
    /\ (row + col) \notin positive_diagonals
    /\ (row - col) \notin negative_diagonals

RECURSIVE place_queens(_, _, _, _, _), ForCol(_, _, _, _, _, _)
\* place_queens(row): [[]] past the last row, else what the loop over the
\* columns collects.  The three sets are those of solve_nqueens at the call.
place_queens(n, row, columns, positive_diagonals, negative_diagonals) ==
    IF row = n THEN <<<<>>>>
    ELSE ForCol(n, row, 0, columns, positive_diagonals, negative_diagonals)

\* "for col in range(n)" from col on: a column under attack is skipped; else
\* the queen is placed, every placement of the rows below is extended by
\* "placement + [[row, col]]", and the queen is removed again.
ForCol(n, row, col, columns, positive_diagonals, negative_diagonals) ==
    IF col = n THEN <<>>
    ELSE LET here ==
                IF ~can_place_queen(row, col, columns, positive_diagonals,
                                    negative_diagonals)
                    THEN <<>>
                    ELSE LET below ==
                                place_queens(n, row + 1,
                                    columns \cup {col},
                                    positive_diagonals \cup {row + col},
                                    negative_diagonals \cup {row - col})
                         IN [i \in 1..Len(below) |->
                                Append(below[i], <<row, col>>)]
         IN here \o ForCol(n, row, col + 1, columns, positive_diagonals,
                           negative_diagonals)

\* columns, positive_diagonals, negative_diagonals = set(), set(), set();
\* return place_queens(0)
solve_nqueens(n) == place_queens(n, 0, {}, {}, {})

\* if n < 4: print("N must be at least 4"); sys.exit(1)
\* else the call of solve_nqueens(n) that the for loop iterates over
QueensMain ==
    /\ queens_pc = "main"
    /\ IF queens < 4
        THEN queens_pc' = "exit_1" /\ UNCHANGED solutions
        ELSE queens_pc' = "print" /\ solutions' = solve_nqueens(queens)
    /\ UNCHANGED <<queens, printed>>
    /\ UNCHANGED <<statsvars, apivars, boxvars, editvars>>

\* for solution in ...: print(solution)
QueensPrint ==
    /\ queens_pc = "print"
    /\ Len(printed) < Len(solutions)
    /\ printed' = Append(printed, solutions[Len(printed) + 1])
    /\ UNCHANGED <<queens, solutions, queens_pc>>
    /\ UNCHANGED <<statsvars, apivars, boxvars, editvars>>

\* the for loop is over
QueensEnd ==
    /\ queens_pc = "print"
    /\ Len(printed) = Len(solutions)
    /\ queens_pc' = "done"
    /\ UNCHANGED <<queens, solutions, printed>>
    /\ UNCHANGED <<statsvars, apivars, boxvars, editvars>>

\* ./0-nqueens.py N with N a number from 1 to MaxQueens
InitQueens ==
    /\ queens \in 1..MaxQueens
    /\ solutions = <<>>
    /\ printed = <<>>
    /\ queens_pc = "main"
    /\ StatsOff
    /\ ApiIdle
    /\ BoxesIdle
    /\ EditIdle

NextQueens ==
    \/ QueensMain
    \/ QueensPrint
    \/ QueensEnd

SpecQueens == InitQueens /\ [][NextQueens]_vars

RECURSIVE Flat(_)
\* the numbers of a solution in the order printed
Flat(solution) ==
    IF solution = <<>> THEN <<>>
    ELSE Head(solution) \o Flat(Tail(solution))

\* a comes before b as Python compares lists of numbers
LexLess(a, b) ==
    \/ \E k \in 1..Len(a) :
        /\ k <= Len(b)
        /\ a[k] < b[k]
        /\ \A j \in 1..(k - 1) : a[j] = b[j]
    \/ Len(a) < Len(b) /\ \A j \in 1..Len(a) : a[j] = b[j]

\* ---------------------------------------------------- reading the output
CodesOf(b) == {r.status_code : r \in BagToSet(b)}

\* The status codes of S in ascending numeric order.
RECURSIVE Ascending(_)
Ascending(S) ==
    IF S = {} THEN <<>>
    ELSE LET c == CHOOSE c \in S : \A d \in S : IntOf(c) <= IntOf(d)
         IN <<c>> \o Ascending(S \ {c})

\* The report of the records of bag b under the heading label: the total,
\* then every status code that occurs, in ascending numeric order.
ReportOf(b, label) ==
    LET codes == Ascending(CodesOf(b)) IN
    <<[kind |-> "size", label |-> label, code |-> <<>>, n |-> TotalBytes(b)]>>
    \o [i \in 1..Len(codes) |->
            [kind |-> "code", label |-> "", code |-> codes[i],
             n |-> Occurrences(b, codes[i])]]

\* A line of output without its heading.
Data(line) == <<line.kind, line.code, line.n>>
DataOf(out) == [i \in 1..Len(out) |-> Data(out[i])]

SizeLines(out) == {i \in 1..Len(out) : out[i].kind = "size"}
NumReports(out) == Cardinality(SizeLines(out))
NumDiag(out) == Cardinality({i \in 1..Len(out) : out[i].kind = "diag"})

\* The output from its last "File Size" line on.
LastReport(out) ==
    IF SizeLines(out) = {} THEN <<>>
    ELSE LET p == CHOOSE p \in SizeLines(out) : \A q \in SizeLines(out) : q <= p
         IN SubSeq(out, p, Len(out))

\* The sum of the counts of the status lines that start at position j.
RECURSIVE CountFrom(_, _)
CountFrom(out, j) ==
    IF j <= Len(out) /\ out[j].kind = "code"
        THEN out[j].n + CountFrom(out, j + 1)
        ELSE 0

\* What was written after SIGINT arrived.
SinceSignal == SubSeq(stdout, at_sig.nout + 1, Len(stdout))

\* The statements of start().
StartPcs == {"read", "parse", "log_size", "log_count", "count", "check",
             "notify", "print_size", "sorted", "print_code"}

\* ------------------------------------------------------------------ claims

\* C1: in 1-stats.py, whenever start() is between two lines (or has
\* finished), _files_size is the sum of the byte sizes of the records folded
\* so far and every status code's count is the number of folded records with
\* that code; and no step ever lowers the total or a count.
C1_Accumulator ==
    /\ [](script = "1-stats" /\ pc \in {"read", "return", "done"} =>
            /\ files_size = TotalBytes(folded)
            /\ \A c \in StatusCodes \cup Keys(status_code_count) :
                    DictGet(status_code_count, c) = Occurrences(folded, c))
    /\ [][script = "1-stats" =>
            /\ files_size' >= files_size
            /\ \A c \in Keys(status_code_count) :
                    DictGet(status_code_count', c)
                        >= DictGet(status_code_count, c)]_vars

C1_Witness ==
    /\ script = "1-stats"
    /\ pc = "read"
    /\ BagCardinality(folded) = 11
    /\ Cardinality(CodesOf(folded)) = 2
    /\ NumReports(stdout) = 1

\* C2 as stated: the line counter counts every line handed to parse_log,
\* matched or not, and a report has been written for every full ten of them.
C2_EveryLineCounted ==
    (pc = "read" /\ at_sig.pc = "none") =>
        LET processed == BagCardinality(folded) + NumDiag(stdout) IN
        /\ line_count = processed
        /\ NumReports(stdout) = processed \div BatchSize

\* C2 as amended: the line counter counts only the lines that matched and
\* were folded; a report is started exactly when that counter becomes a
\* multiple of 10, so between two lines one report has been written for
\* every full ten folded lines.
C2_FoldedLinesCounted ==
    /\ (pc = "read" /\ at_sig.pc = "none") =>
            /\ line_count = BagCardinality(folded)
            /\ NumReports(stdout) = line_count \div BatchSize
    /\ (pc = "notify" /\ ret = "read") =>
            /\ line_count = BagCardinality(folded)
            /\ line_count % BatchSize = 0
            /\ NumReports(stdout) = (line_count \div BatchSize) - 1

C2_Witness ==
    /\ pc = "read"
    /\ at_sig.pc = "none"
    /\ nread = 11
    /\ NumDiag(stdout) = 1
    /\ line_count = 10
    /\ NumReports(stdout) = 1

\* C3: in 1-stats.py, when start() has exhausted a stream of N lines that
\* all matched, it has written N div 10 intermediate reports, the k-th of
\* them showing 10 * k records, and then one final report showing all N; for
\* the empty stream that is the single line with total 0.
C3_ReportCount ==
    (script = "1-stats" /\ pc = "done" /\ nodd = 0) =>
        /\ NumReports(stdout) = (nread \div BatchSize) + 1
        /\ \A p \in SizeLines(stdout) :
            LET k == Cardinality({q \in SizeLines(stdout) : q <= p}) IN
            CountFrom(stdout, p + 1) =
                IF k <= nread \div BatchSize THEN BatchSize * k ELSE nread
        /\ DataOf(LastReport(stdout)) = DataOf(ReportOf(folded, ""))
        /\ nread = 0 => DataOf(stdout) = << <<"size", <<>>, 0>> >>

C3_Witness ==
    /\ script = "1-stats"
    /\ pc = "done"
    /\ nodd = 0
    /\ nread = 30
    /\ NumReports(stdout) = 4

\* C4 as stated: a report that update() has just completed is the line
\* "File size: <total>" followed by one line "<code>: <count>" for every
\* status code that occurred, in ascending numeric order.
C4_ReportFormat ==
    (pc = "print_code" /\ items = <<>> /\ at_sig.pc = "none") =>
        LastReport(stdout) = ReportOf(folded, "File size")

\* C5 as stated: whenever SIGINT has arrived, the callback was invoked once,
\* exactly one report was written after it and the process has exited with
\* status 0.
C5_AnyPoint ==
    at_sig.pc # "none" =>
        /\ at_sig.calls = 1
        /\ NumReports(SinceSignal) = 1
        /\ pc = "exited"
        /\ exit_code = <<0>>

\* C5 as amended: when SIGINT arrives while parser.start() is running, the
\* callback is invoked once, exactly one report is written, and the process
\* exits with status 0; after that no line is folded and nothing more is
\* written.
C5_DuringStart ==
    /\ [](at_sig.pc \in StartPcs =>
            /\ at_sig.calls = 1
            /\ NumReports(SinceSignal) = 1
            /\ pc = "exited"
            /\ exit_code = <<0>>)
    /\ [][at_sig.pc \in StartPcs =>
            UNCHANGED <<files_size, status_code_count, line_count, folded,
                        stdout, exit_code>>]_vars

C5_Witness ==
    /\ at_sig.pc = "print_code"
    /\ items # <<>>
    /\ pc = "exited"
    /\ exit_code = <<0>>
    /\ NumReports(stdout) = 2

\* C6: when SIGINT arrives between two lines, after k records were folded,
\* the report the handler writes shows the total size and the status counts
\* of exactly those k records, and the process exits with status 0.
C6_InterruptReport ==
    at_sig.pc = "read" =>
        /\ DataOf(SinceSignal) = DataOf(ReportOf(folded, ""))
        /\ exit_code = <<0>>

C6_Witness ==
    /\ at_sig.pc = "read"
    /\ BagCardinality(folded) = 7
    /\ Cardinality(CodesOf(folded)) = 2
    /\ NumReports(stdout) = 1
    /\ exit_code = <<0>>

\* C7 as stated: as long as no signal arrived, every line on standard
\* output is a line of a report.
C7_OnlyReports ==
    at_sig.pc = "none" =>
        \A i \in 1..Len(stdout) : stdout[i].kind \in {"size", "code"}

\* A record in every respect but its status code, which is three digits
\* outside the enumerated set.
UnknownStatus(line) ==
    /\ Len(line) >= 7
    /\ Len(line) <= 6 + MaxFileSizeDigits
    /\ line[1] = "H"
    /\ line[2] = " "
    /\ AllDigits(SubSeq(line, 3, 5))
    /\ SubSeq(line, 3, 5) \notin StatusCodes
    /\ line[6] = " "
    /\ AllDigits(SubSeq(line, 7, Len(line)))

\* C8: in 1-stats.py only the enumerated status codes are ever counted, and
\* the step that parses a line with another 3-digit code leaves the total
\* and the counts as they are and goes on to the next line.
C8_UnknownStatus ==
    /\ [](script = "1-stats" =>
            /\ Keys(status_code_count) \subseteq StatusCodes
            /\ CodesOf(folded) \subseteq StatusCodes)
    /\ [][(script = "1-stats" /\ pc = "parse" /\ UnknownStatus(log)) =>
            /\ files_size' = files_size
            /\ status_code_count' = status_code_count
            /\ folded' = folded
            /\ pc' \in {"read", "exited"}]_vars

C8_Witness ==
    /\ script = "1-stats"
    /\ pc = "read"
    /\ raw = Code999
    /\ UnknownStatus(log)
    /\ files_size > 0
    /\ stdout # <<>>
    /\ stdout[Len(stdout)] = DiagLine(NoMatchMsg)

\* The grammar of a record: FullMatch1 is that grammar as a full match.
IsRecord(line) == FullMatch1(line).ok

\* A record followed by extra characters that is not itself a record.
RecordPlusExtra(line) ==
    /\ ~IsRecord(line)
    /\ \E n \in 1..(Len(line) - 1) : IsRecord(SubSeq(line, 1, n))

\* C9 as stated: in both scripts a line that is a record followed by extra
\* characters never reaches log().
C9_FullLineMatch ==
    pc = "log_size" => ~RecordPlusExtra(log)

\* The line, without its terminator, ends right after the blank that follows
\* the status code: its byte-size token is empty.
EmptySizeToken(line) ==
    LET t == SelectSeq(line, LAMBDA c : c # "\n") IN
    /\ Len(t) = 6
    /\ t[1] = "H"
    /\ t[2] = " "
    /\ AllDigits(SubSeq(t, 3, 5))
    /\ t[6] = " "

\* C10: a line with an empty byte-size token is never being folded, and the
\* step that parses it changes neither the total, nor a count, nor the line
\* counter, and hands control back to the loop for the next line.
C10_EmptySize ==
    /\ [](pc \in {"log_size", "log_count", "count", "check"} =>
            ~EmptySizeToken(raw))
    /\ [][(pc = "parse" /\ EmptySizeToken(raw)) =>
            /\ files_size' = files_size
            /\ status_code_count' = status_code_count
            /\ line_count' = line_count
            /\ folded' = folded
            /\ exit_code' = <<>> => pc' = "read"]_vars

C10_Witness ==
    /\ pc = "read"
    /\ raw = EmptySize
    /\ EmptySizeToken(raw)
    /\ files_size > 0
    /\ line_count > 0
    /\ stdout # <<>>
    /\ stdout[Len(stdout)] = DiagLine(NoMatchMsg)

\* C11: in 1-stats.py a line that does not match the pattern, or whose size
\* does not convert, is not fatal: the step that handles it leaves
\* _files_size, _status_code_count and the folded records as they were, the
\* process keeps running and start() goes on to read the next line (unless
\* SIGINT arrives at that very moment); and whenever start() is between two
\* lines, every line read so far that matches the pattern has been folded.
C11_MalformedSkipped ==
    /\ [](script = "1-stats" /\ pc \in {"read", "return", "done"}
            => BagCardinality(folded) = nread - nodd)
    /\ [][(script = "1-stats" /\ pc = "parse"
            /\ Classify(script, log).kind # "record")
          => /\ files_size' = files_size
             /\ status_code_count' = status_code_count
             /\ folded' = folded
             /\ \/ pc' = "read" /\ exit_code' = <<>>
                \/ at_sig'.pc = "parse"]_vars

\* a malformed line was skipped with its diagnostic, and records that came
\* after it have been folded
C11_Witness ==
    /\ script = "1-stats"
    /\ pc = "read"
    /\ nodd = 1
    /\ NumDiag(stdout) = 1
    /\ raw = Rec404
    /\ Occurrences(folded, <<"4", "0", "4">>) = 1
    /\ stdout[1].kind = "diag"
    /\ files_size = 12
    /\ status_code_count = <<<<<<"4", "0", "4">>, 1>>>>

\* The statements of notify() and of the update() it calls.
NotifyPcs == {"notify", "print_size", "sorted", "print_code"}

\* The totals of the "File Size" lines of out, in the order printed.
Totals(out) ==
    LET s == SelectSeq(out, LAMBDA l : l.kind = "size") IN
    [i \in 1..Len(s) |-> s[i].n]

\* C13: no step of notify() or of the update() it calls, whether the
\* notification is periodic, final or made by the SIGINT handler, changes
\* _files_size, any count or the key set of _status_code_count, or
\* _line_count; and the reports are cumulative: the total printed by a
\* report is never below the total of the report before it.
C13_NotifyReadsOnly ==
    /\ [](\A i \in 1..Len(Totals(stdout)) - 1 :
            Totals(stdout)[i] <= Totals(stdout)[i + 1])
    /\ [][(pc \in NotifyPcs \/ at_sig'.pc # at_sig.pc)
          => /\ files_size' = files_size
             /\ status_code_count' = status_code_count
             /\ line_count' = line_count]_vars

\* the second periodic report has been printed, and its total carries the
\* ten records of the first period as well
C13_Witness ==
    /\ pc = "read"
    /\ line_count = 2 * BatchSize
    /\ Len(Totals(stdout)) = 2
    /\ Totals(stdout)[1] > 0
    /\ Totals(stdout)[2] = files_size
    /\ Totals(stdout)[2] > Totals(stdout)[1]
    /\ BagCardinality(folded) = 2 * BatchSize

\* C14: when SIGINT arrives while a SignalHandler is installed whose callback
\* is still None (between the construction of a SignalHandler and the
\* assignment of its callback), the handler prints the diagnostic line, and
\* nothing else, and the process exits with status 0.
C14_NoCallback ==
    (at_sig.pc # "none" /\ handler # "default" /\ callback[handler] = "None")
        => /\ SinceSignal = <<DiagLine(NoCallbackMsg)>>
           /\ exit_code = <<0>>
           /\ pc = "exited"

\* SIGINT arrived after main() built its SignalHandler and before it set the
\* callback: the diagnostic is the whole output
C14_Witness ==
    /\ at_sig.pc = "main_set_callback"
    /\ handler = "main"
    /\ callback["main"] = "None"
    /\ stdout = <<DiagLine(NoCallbackMsg)>>
    /\ exit_code = <<0>>

\* C15: in 0-stats.py, once the input is exhausted and start() has returned,
\* a final report has been emitted (one report per full batch of ten and one
\* at end of input) and the last report printed shows the total size and
\* the counts of every record that was folded.
C15_FinalReport ==
    (script = "0-stats" /\ pc \in {"return", "done"})
        => /\ NumReports(stdout) = (line_count \div BatchSize) + 1
           /\ \E p \in SizeLines(stdout) :
                /\ \A q \in SizeLines(stdout) : q <= p
                /\ stdout[p].n = TotalBytes(folded)
                /\ CountFrom(stdout, p + 1) = BagCardinality(folded)

\* C19: the report printed by the SIGINT handler while start() runs is
\* consistent wherever the signal lands, also between the two updates of
\* log(): there is a set of folded records such that the report's total is
\* the sum of their sizes and its status lines count exactly these records.
C19_ConsistentReport ==
    (at_sig.pc \in StartPcs /\ at_sig.calls = 1 /\ observers > 0)
        => \E b \in SubBag(folded) :
                DataOf(SinceSignal) = DataOf(ReportOf(b, ""))

\* C12: a summary returned by get_summary() keeps the total size and the
\* status counts of the moment it was returned, whatever log() is called
\* with afterwards.
C12_SnapshotImmutable ==
    held # <<>>
        => /\ held[1].files_size = taken[1].files_size
           /\ Deref(held[1].status_code_count) = taken[1].status_code_count

\* C16: for every n from 2 up to MaxH, minOperations(n) is the length of
\* the shortest sequence of Copy All and Paste that takes a file of one 'H'
\* and an empty clipboard to a file of n 'H': no run of the editor reaches
\* n characters in fewer operations, and some sequence of exactly
\* minOperations(n) operations reaches them; below 2 the result is 0.
C16_MinOperations ==
    /\ chars >= 2 => operations >= minOperations(chars)
    /\ chars >= 2 =>
            \E c \in ReachIn(minOperations(chars)) : c[1] = chars
    /\ \A n \in (0 - MaxH)..1 : minOperations(n) = 0

\* nine characters reached in the six operations minOperations(9) returns
\* (Copy All, Paste, Paste, twice)
C16_Witness ==
    /\ chars = 9
    /\ clipboard = 3
    /\ operations = 6
    /\ minOperations(chars) = operations

\* C17: for a non-empty list of boxes with non-negative keys, canUnlockAll
\* returns True exactly when every box 0..n-1 can be reached from box 0 by
\* opening boxes and using the keys found in them, a key that is the index
\* of no box being ignored; and the call ends, whatever cycles the keys
\* form: the loop pops at most one box per box of the list, and the call
\* eventually returns.
C17_CanUnlockAll ==
    /\ [](box_pc = "done" =>
            can_unlock = <<OpenedFrom({0}) = DOMAIN boxes>>)
    /\ [](pops <= boxes_number)
    /\ <>(box_pc = "done")

\* three boxes whose keys form a cycle, and a key that opens no box: every
\* box was opened and the call returned True
C17_Witness ==
    /\ box_pc = "done"
    /\ boxes = [i \in 0..2 |-> IF i = 0 THEN <<1, 3>>
                               ELSE IF i = 1 THEN <<0, 2, 3>> ELSE <<1>>]
    /\ can_unlock = <<TRUE>>
    /\ pops = 3

\* C18: the solutions 0-nqueens.py prints come in lexicographical order,
\* each before the next, and every solution lists its queens by ascending
\* row: the k-th position of a solution is the queen of row k - 1.
C18_Order ==
    /\ \A i \in 1..Len(printed) :
        \A k \in 1..Len(printed[i]) : printed[i][k][1] = k - 1
    /\ \A i \in 1..(Len(printed) - 1) :
        LexLess(Flat(printed[i]), Flat(printed[i + 1]))

=============================================================================
